---- MODULE Spec2Model ----
(***************************************************************************)
(* Model of src/program/workflow.rs: the Workflow container, its loader    *)
(* new_from_json and the external-memory normalizer                        *)
(* deserialize_external_memory.                                            *)
(*                                                                         *)
(* Values are tagged tuples, tag first:                                    *)
(*   serde_json::Value  <<"null">>, <<"bool", b>>, <<"number", n>>,        *)
(*                      <<"string", s>>, <<"array", items>>,               *)
(*                      <<"object", map>>  (map: a sequence of <<k, v>>    *)
(*                      with pairwise distinct keys, in iteration order)   *)
(*   JSON text of an object, before it is parsed into a Value:             *)
(*                      <<"members", seq of <<k, v>>>> (keys may repeat)   *)
(*   Entry              <<"String", s>>, <<"Json", value>>                 *)
(*   MemoryInputType    <<"Entry", e>>, <<"Page", seq of Entry>>           *)
(*   Option             <<"None">>, <<"Some", x>>                          *)
(*   Result             <<"Ok", x>>, <<"Err", e>>                          *)
(*   HashMap<ID, _>     a set of <<key, value>> pairs, one pair per key    *)
(*                                                                         *)
(* The order in which the loop of deserialize_external_memory visits the   *)
(* map is the map's own (insertion order here); every failure of the loop  *)
(* returns the same error, so the result does not depend on it.            *)
(***************************************************************************)
EXTENDS Integers, Sequences, FiniteSets, TLC

VARIABLES
    field,      \* the external_memory field of the document handed to the normalizer
    out,        \* what the field's deserialization returned
    file,       \* the document found at the path given to new_from_json
    wf,         \* the Workflow value, once constructed
    result,     \* what new_from_json returned
    last        \* the last operation performed on the program

vars == <<field, out, file, wf, result, last>>

normVars == <<field, out>>
flowVars == <<file, wf, result, last>>

----------------------------------------------------------------------------
(* Bounds of the model *)

MaxPageLen == 3     \* longest array checked on its own
MaxEntries == 2     \* most members of an external_memory object
MaxItems == 1       \* longest array inside a several-member object
MaxTasks == 2       \* longest task sequence
MaxSteps == 2       \* longest step sequence

----------------------------------------------------------------------------
(* Option and Result *)

None == <<"None">>
Some(x) == <<"Some", x>>
Ok(x) == <<"Ok", x>>
Err(e) == <<"Err", e>>

IsOk(r) == r[1] = "Ok"
IsErr(r) == r[1] = "Err"
IsSome(o) == o[1] = "Some"

SeqsUpTo(S, n) == UNION {[1..m -> S] : m \in 0..n}

----------------------------------------------------------------------------
(* serde_json::Value *)

Null == <<"null">>
Bool(b) == <<"bool", b>>
Number(n) == <<"number", n>>
Str(s) == <<"string", s>>
Array(items) == <<"array", items>>
Object(map) == <<"object", map>>
Members(members) == <<"members", members>>

ObjA == Object(<< <<"a", Number(1)>> >>)
ObjEmpty == Object(<<>>)

\* Value::as_array, Value::as_str, Value::is_object, Value::as_object
as_array(v) == IF v[1] = "array" THEN Some(v[2]) ELSE None
as_str(v) == IF v[1] = "string" THEN Some(v[2]) ELSE None
is_object(v) == v[1] = "object"
as_object(v) == IF v[1] = "object" THEN Some(v[2]) ELSE None

\* Entry and MemoryInputType
EntryString(s) == <<"String", s>>
EntryJson(v) == <<"Json", v>>
MemEntry(e) == <<"Entry", e>>
MemPage(p) == <<"Page", p>>

----------------------------------------------------------------------------
(* Parsing the field's JSON text into Option<Value> (line 14) *)

\* serde_json::Map::insert as the Value visitor uses it: a key already in the
\* map has its value replaced, a new key is added.
\* variant of MapInsert that keeps the value a key already has
MapInsertFirstWins(map, key, val) ==
    IF \E i \in 1..Len(map) : map[i][1] = key
    THEN map
    ELSE Append(map, <<key, val>>)

MapInsert(map, key, val) ==
    IF \E i \in 1..Len(map) : map[i][1] = key
    THEN [i \in 1..Len(map) |-> IF map[i][1] = key THEN <<key, val>> ELSE map[i]]
    ELSE Append(map, <<key, val>>)

RECURSIVE MapFromMembers(_, _, _)
MapFromMembers(members, i, map) ==
    IF i > Len(members)
    THEN map
    ELSE MapFromMembers(members, i + 1, MapInsert(map, members[i][1], members[i][2]))

\* Value::deserialize: the members of an object are collected into a Map; every
\* other value is taken as it stands.
ValueFromText(text) ==
    IF text[1] = "members"
    THEN Object(MapFromMembers(text[2], 1, <<>>))
    ELSE text

\* Option::<Value>::deserialize: JSON null is None, anything else Some(value).
OptionValueDeserialize(text) ==
    IF text[1] = "null" THEN None ELSE Some(ValueFromText(text))

----------------------------------------------------------------------------
(* deserialize_external_memory (lines 8-55) *)

ErrExpectedMap == "Expected a map"
ErrInvalidEntry == "Invalid entry format"

\* HashMap::insert
HashMapInsert(m, key, v) == {p \in m : p[1] # key} \cup {<<key, v>>}

\* for item in array { ... } (lines 26-34), from item i on
\* variant of ConvertItems that puts each entry in front of the page
RECURSIVE ConvertItemsReversed(_, _, _)
ConvertItemsReversed(array, i, stack_page) ==
    IF i > Len(array)
    THEN Ok(stack_page)
    ELSE LET item == array[i] IN
         IF IsSome(as_str(item))
         THEN ConvertItemsReversed(array, i + 1, <<EntryString(as_str(item)[2])>> \o stack_page)
         ELSE IF is_object(item)
         THEN ConvertItemsReversed(array, i + 1, <<EntryJson(item)>> \o stack_page)
         ELSE Err(ErrInvalidEntry)

RECURSIVE ConvertItems(_, _, _)
ConvertItems(array, i, stack_page) ==
    IF i > Len(array)
    THEN Ok(stack_page)
    ELSE LET item == array[i] IN
         IF IsSome(as_str(item))
         THEN ConvertItems(array, i + 1, Append(stack_page, EntryString(as_str(item)[2])))
         ELSE IF is_object(item)
         THEN ConvertItems(array, i + 1, Append(stack_page, EntryJson(item)))
         ELSE Err(ErrInvalidEntry)

\* the body of the loop over the map (lines 24-48): the value to insert, or the error
\* variant of ConvertValue that wraps a string as Entry::Json
ConvertValueStringAsJson(val) ==
    IF IsSome(as_array(val))
    THEN LET page == ConvertItems(as_array(val)[2], 1, <<>>) IN
         IF IsErr(page) THEN page ELSE Ok(MemPage(page[2]))
    ELSE IF IsSome(as_str(val)) \/ is_object(val)
    THEN Ok(MemEntry(EntryJson(val)))
    ELSE Err(ErrInvalidEntry)

ConvertValue(val) ==
    IF IsSome(as_array(val))
    THEN LET page == ConvertItems(as_array(val)[2], 1, <<>>) IN
         IF IsErr(page) THEN page ELSE Ok(MemPage(page[2]))
    ELSE IF IsSome(as_str(val))
    THEN Ok(MemEntry(EntryString(as_str(val)[2])))
    ELSE IF is_object(val)
    THEN Ok(MemEntry(EntryJson(val)))
    ELSE Err(ErrInvalidEntry)

\* for (key, val) in map { ... } (lines 21-51), from entry i on
\* variant of NormalizeMap that leaves an invalid entry out and goes on
RECURSIVE NormalizeMapSkipInvalid(_, _, _)
NormalizeMapSkipInvalid(map, i, external_memory) ==
    IF i > Len(map)
    THEN Ok(Some(external_memory))
    ELSE LET key == map[i][1]
             conv == ConvertValue(map[i][2])
         IN  IF IsErr(conv)
             THEN NormalizeMapSkipInvalid(map, i + 1, external_memory)
             ELSE NormalizeMapSkipInvalid(map, i + 1,
                                          HashMapInsert(external_memory, key, conv[2]))

RECURSIVE NormalizeMap(_, _, _)
NormalizeMap(map, i, external_memory) ==
    IF i > Len(map)
    THEN Ok(Some(external_memory))
    ELSE LET key == map[i][1]
             conv == ConvertValue(map[i][2])
         IN  IF IsErr(conv)
             THEN conv
             ELSE NormalizeMap(map, i + 1, HashMapInsert(external_memory, key, conv[2]))

\* variant of deserialize_external_memory that takes a non-map for no memory
deserialize_external_memory_lenient(text) ==
    LET value == OptionValueDeserialize(text) IN
    IF IsSome(value)
    THEN LET map == as_object(value[2]) IN
         IF IsSome(map) THEN NormalizeMap(map[2], 1, {}) ELSE Ok(None)
    ELSE Ok(None)

deserialize_external_memory(text) ==
    LET value == OptionValueDeserialize(text) IN
    IF IsSome(value)
    THEN LET map == as_object(value[2]) IN
         IF IsSome(map) THEN NormalizeMap(map[2], 1, {}) ELSE Err(ErrExpectedMap)
    ELSE Ok(None)

\* #[serde(default, deserialize_with = "deserialize_external_memory")] (line 61):
\* an absent field takes Option's default and the normalizer is not called.
Absent == <<"absent">>
Present(text) == <<"present", text>>

\* variant of ExternalMemoryField whose default is an empty map
ExternalMemoryFieldEmptyDefault(f) ==
    IF f = Absent THEN Ok(Some({})) ELSE deserialize_external_memory(f[2])

ExternalMemoryField(f) ==
    IF f = Absent THEN Ok(None) ELSE deserialize_external_memory(f[2])

----------------------------------------------------------------------------
(* Inputs of the normalizer *)

Keys == {"k1", "k2"}

\* elements of an array checked on its own: every shape an element can take
PageItems == {Str("a"), Str(" b "), ObjA, ObjEmpty, Number(7), Bool(TRUE), Null,
              Array(<<Str("a")>>)}

\* elements of an array inside a several-member object
MapItems == {Str("a"), ObjA, Number(7)}

\* values of the members of a several-member object
MapValues == {Str("a"), ObjA, Number(7), Bool(FALSE), Null}
                 \cup {Array(a) : a \in SeqsUpTo(MapItems, MaxItems)}

PageInputs == {Members(<< <<"k1", Array(a)>> >>) : a \in SeqsUpTo(PageItems, MaxPageLen)}

MapInputs == {Members(m) : m \in SeqsUpTo(Keys \X MapValues, MaxEntries)}

TopLevelInputs == {Null, Bool(TRUE), Number(7), Str("a")}
                      \cup {Array(a) : a \in SeqsUpTo(MapItems, MaxItems)}

FieldInputs == {Absent} \cup {Present(t) : t \in PageInputs \cup MapInputs \cup TopLevelInputs}

----------------------------------------------------------------------------
(* The normalizer on its own *)

NotRun == <<"NotRun">>
NotCalled == <<"NotCalled">>
NoFile == <<"NoFile">>

InitNorm ==
    /\ field \in FieldInputs
    /\ out = NotRun
    /\ file = NoFile
    /\ wf = None
    /\ result = NotCalled
    /\ last = "none"

Normalize ==
    /\ out = NotRun
    /\ out' = ExternalMemoryField(field)
    /\ UNCHANGED <<field, flowVars>>

NextNorm == Normalize

SpecNorm == InitNorm /\ [][NextNorm]_vars

----------------------------------------------------------------------------
(* What the claims about the normalizer speak of, read off the input text *)

Shape(v) == v[1]

IsObjectField == field # Absent /\ Shape(field[2]) = "members"

FieldMembers == field[2][2]

SourceKeys == {FieldMembers[i][1] : i \in 1..Len(FieldMembers)}

HasDuplicateKey ==
    \E i, j \in 1..Len(FieldMembers) : i < j /\ FieldMembers[i][1] = FieldMembers[j][1]

\* the value of the last member of the object text that carries key k
LastOccurrence(k) ==
    LET i == CHOOSE n \in 1..Len(FieldMembers) :
                 /\ FieldMembers[n][1] = k
                 /\ \A j \in (n + 1)..Len(FieldMembers) : FieldMembers[j][1] # k
    IN  FieldMembers[i][2]

ValidItem(item) == Shape(item) \in {"string", "object"}

OtherShape(v) == Shape(v) \in {"number", "bool", "null"}

InvalidValue(v) ==
    \/ OtherShape(v)
    \/ Shape(v) = "array" /\ \E i \in 1..Len(v[2]) : ~ValidItem(v[2][i])

EntryOf(item) == IF Shape(item) = "string" THEN EntryString(item[2]) ELSE EntryJson(item)

Normalized == IsOk(out) /\ IsSome(out[2])

OutMap == out[2][2]

OutKeys == {p[1] : p \in OutMap}

\* C1: an object in which some key's value is invalid (a number, boolean or
\* null, or an array holding an element that is neither a string nor an
\* object) is rejected with an error, whatever the other keys hold; no map, and
\* in particular no map of the remaining keys, is returned.
C1_Atomicity ==
    (/\ out # NotRun
     /\ IsObjectField
     /\ \E k \in SourceKeys : InvalidValue(LastOccurrence(k)))
        => out = Err(ErrInvalidEntry)

\* an object with a valid and an invalid key, in either order, was rejected
C1_Witness ==
    /\ out = Err(ErrInvalidEntry)
    /\ IsObjectField
    /\ \E k1, k2 \in SourceKeys :
          /\ k1 # k2
          /\ ~InvalidValue(LastOccurrence(k1))
          /\ InvalidValue(LastOccurrence(k2))
          /\ FieldMembers[1][1] = k1

\* C2: on success every key's output is fixed by the shape of its source
\* value: a string gives Entry(String(s)), an object Entry(Json(o)), an array
\* a Page; a number, boolean or null as a value makes the normalization fail.
C2_ShapeClassification ==
    (out # NotRun /\ IsObjectField) =>
        \A k \in SourceKeys :
            LET v == LastOccurrence(k) IN
            /\ OtherShape(v) => IsErr(out)
            /\ Normalized =>
                  /\ Shape(v) = "string" =>
                        <<k, MemEntry(EntryString(v[2]))>> \in OutMap
                  /\ Shape(v) = "object" =>
                        <<k, MemEntry(EntryJson(v))>> \in OutMap
                  /\ Shape(v) = "array" =>
                        \E p \in OutMap : p[1] = k /\ p[2][1] = "Page"
                  /\ Shape(v) \in {"string", "object", "array"}

\* a map with a string under one key and an object under the other was produced
C2_Witness ==
    /\ Normalized
    /\ IsObjectField
    /\ \E k1, k2 \in SourceKeys :
          /\ Shape(LastOccurrence(k1)) = "string"
          /\ Shape(LastOccurrence(k2)) = "object"
          /\ Cardinality(OutMap) = 2

\* C3: an array of strings and objects becomes a Page of the same length whose
\* i-th entry is the entry of the i-th element; an array holding any other
\* element is rejected, never shortened.
C3_PageOrder ==
    (out # NotRun /\ IsObjectField) =>
        \A k \in SourceKeys :
            LET v == LastOccurrence(k) IN
            Shape(v) = "array" =>
                /\ (\E i \in 1..Len(v[2]) : ~ValidItem(v[2][i])) => IsErr(out)
                /\ Normalized =>
                      \E p \in OutMap :
                          /\ p[1] = k
                          /\ p[2][1] = "Page"
                          /\ Len(p[2][2]) = Len(v[2])
                          /\ \A i \in 1..Len(v[2]) : p[2][2][i] = EntryOf(v[2][i])

\* a Page of three entries, strings and objects mixed, was produced
C3_Witness ==
    /\ Normalized
    /\ IsObjectField
    /\ \E p \in OutMap :
          /\ p[2][1] = "Page"
          /\ Len(p[2][2]) >= 3
          /\ p[2][2][1][1] = "String"
          /\ p[2][2][2][1] = "Json"
          /\ p[2][2][3] # p[2][2][1]

\* C9: on success the output has exactly the keys of the source, one entry
\* each; repeated keys are no error (a source whose keys' last occurrences are
\* all valid is normalized), and a repeated key carries the classification of
\* its last occurrence.
C9_KeysAndDuplicates ==
    (out # NotRun /\ IsObjectField) =>
        /\ (\A k \in SourceKeys : ~InvalidValue(LastOccurrence(k))) => Normalized
        /\ Normalized =>
              /\ OutKeys = SourceKeys
              /\ Cardinality(OutMap) = Cardinality(SourceKeys)
              /\ \A k \in SourceKeys :
                    \E p \in OutMap : p[1] = k /\ Ok(p[2]) = ConvertValue(LastOccurrence(k))

\* a source repeating a key with two different values was normalized
C9_Witness ==
    /\ Normalized
    /\ IsObjectField
    /\ HasDuplicateKey
    /\ \E i, j \in 1..Len(FieldMembers) :
          /\ i < j
          /\ FieldMembers[i][1] = FieldMembers[j][1]
          /\ Shape(FieldMembers[i][2]) # Shape(FieldMembers[j][2])

\* C10: a field present as null gives None, as an absent field does; a field
\* present as a string, number, boolean or array fails with "Expected a map".
C10_TopLevelShape ==
    out # NotRun =>
        /\ field = Absent => out = Ok(None)
        /\ field = Present(Null) => out = Ok(None)
        /\ (field # Absent /\ Shape(field[2]) \in {"string", "number", "bool", "array"})
              => out = Err(ErrExpectedMap)

\* a field holding an array was rejected as not being a map
C10_Witness ==
    /\ out = Err(ErrExpectedMap)
    /\ field # Absent
    /\ Shape(field[2]) = "array"

----------------------------------------------------------------------------
(* The Workflow container (lines 58-66): config, external_memory, tasks,     *)
(* steps, return_value.  Task and Edge are known by their id and source.     *)

Task(id, prompt) == [id |-> id, prompt |-> prompt]
Edge(source, target) == [source |-> source, target |-> target]

TaskIds == {"t1", "t2"}
Prompts == {"p1", "p2"}
Tasks == [id : TaskIds, prompt : Prompts]
Edges == {Edge("t1", "t2"), Edge("t1", "end"), Edge("t2", "end")}
Configs == {"cfgA", "cfgB"}
ReturnValues == {"rvA", "rvB"}
Memories == {None, Some({}), Some({<<"k1", MemEntry(EntryString("a"))>>})}
QueryIds == TaskIds \cup {"t9"}

\* Workflow::new (lines 69-83)
new(tasks, steps, config, external_memory, return_value) ==
    [config |-> config,
     external_memory |-> external_memory,
     tasks |-> tasks,
     steps |-> steps,
     return_value |-> return_value]

\* a reference into a vector: the position (from 1) and the element there
Ref(i, elem) == <<i, elem>>

\* variant of FindBySource that returns the last matching edge
RECURSIVE FindLastBySource(_, _, _)
FindLastBySource(steps, i, task_id) ==
    IF i > Len(steps)
    THEN None
    ELSE LET rest == FindLastBySource(steps, i + 1, task_id) IN
         IF IsSome(rest) THEN rest
         ELSE IF steps[i].source = task_id THEN Some(Ref(i, steps[i]))
         ELSE None

\* Iterator::find over a vector, from position i on: the first element that
\* satisfies the closure
RECURSIVE FindBySource(_, _, _)
FindBySource(steps, i, task_id) ==
    IF i > Len(steps)
    THEN None
    ELSE IF steps[i].source = task_id
    THEN Some(Ref(i, steps[i]))
    ELSE FindBySource(steps, i + 1, task_id)

RECURSIVE FindById(_, _, _)
FindById(tasks, i, task_id) ==
    IF i > Len(tasks)
    THEN None
    ELSE IF tasks[i].id = task_id
    THEN Some(Ref(i, tasks[i]))
    ELSE FindById(tasks, i + 1, task_id)

\* the accessors (lines 94-131)
get_config(w) == w.config
get_tasks(w) == w.tasks
get_workflow(w) == w.steps
get_return_value(w) == w.return_value
\* Vec::get: index counts from 0
get_step(w, index) ==
    IF index < Len(w.steps) THEN Some(Ref(index + 1, w.steps[index + 1])) ELSE None
get_step_by_id(w, task_id) == FindBySource(w.steps, 1, task_id)
get_tasks_by_id(w, task_id) == FindById(w.tasks, 1, task_id)
get_tasks_by_id_mut(w, task_id) == FindById(w.tasks, 1, task_id)

\* variant of WithTasks that also empties the steps
WithTasksDroppingSteps(w, tasks) == [w EXCEPT !.tasks = tasks, !.steps = <<>>]

\* what a caller can do through the &mut Vec<Task> of get_tasks_mut: the
\* vector is replaced, nothing else of the Workflow is reachable through it
WithTasks(w, tasks) == [w EXCEPT !.tasks = tasks]

\* variant of WithTaskAt that also redirects return_value
WithTaskAtAndReturn(w, i, task) ==
    [w EXCEPT !.tasks[i] = task, !.return_value = task.id]

\* what a caller can do through the &mut Task of get_tasks_by_id_mut
WithTaskAt(w, i, task) == [w EXCEPT !.tasks[i] = task]

\* an assignment to the public field external_memory (line 62)
WithExternalMemory(w, external_memory) == [w EXCEPT !.external_memory = external_memory]

----------------------------------------------------------------------------
(* Loading: new_from_json (lines 86-91) over the derived Deserialize of      *)
(* Workflow (lines 58-66).  A document is the sequence of what the reader    *)
(* meets inside the top-level object: members, or the point where reading    *)
(* fails, the bytes stop being JSON, or the input ends.                      *)

FieldNames == {"config", "external_memory", "tasks", "steps", "return_value"}

FieldItem(name, text) == <<"field", name, text>>
IoDefect == <<"io">>
SyntaxDefect == <<"syntax">>
EofDefect == <<"eof">>
Typed(v) == <<"typed", v>>
Mistyped == <<"mistyped">>
File(items) == <<"file", items>>

IoError(msg) == <<"std::io::Error", "Io", msg>>
JsonError(category, msg) == <<"serde_json::Error", category, msg>>

EmptyPartial == [n \in FieldNames |-> None]

\* the end of visit_map: a required field that was never met is an error, the
\* external_memory field takes its default
\* variant of Finish that fills a missing required field with a default
FinishWithDefaults(acc) ==
    Ok(new(IF IsSome(acc["tasks"]) THEN acc["tasks"][2] ELSE <<>>,
           IF IsSome(acc["steps"]) THEN acc["steps"][2] ELSE <<>>,
           IF IsSome(acc["config"]) THEN acc["config"][2] ELSE "default",
           IF IsSome(acc["external_memory"])
               THEN acc["external_memory"][2]
               ELSE ExternalMemoryField(Absent)[2],
           IF IsSome(acc["return_value"]) THEN acc["return_value"][2] ELSE "default"))

Finish(acc) ==
    IF ~IsSome(acc["config"]) THEN Err(JsonError("Data", "missing field config"))
    ELSE IF ~IsSome(acc["tasks"]) THEN Err(JsonError("Data", "missing field tasks"))
    ELSE IF ~IsSome(acc["steps"]) THEN Err(JsonError("Data", "missing field steps"))
    ELSE IF ~IsSome(acc["return_value"])
    THEN Err(JsonError("Data", "missing field return_value"))
    ELSE Ok(new(acc["tasks"][2],
                acc["steps"][2],
                acc["config"][2],
                IF IsSome(acc["external_memory"])
                    THEN acc["external_memory"][2]
                    ELSE ExternalMemoryField(Absent)[2],
                acc["return_value"][2]))

\* the derived visit_map, from item i on: the first failure ends the parse
RECURSIVE VisitMap(_, _, _)
VisitMap(items, i, acc) ==
    IF i > Len(items)
    THEN Finish(acc)
    ELSE LET item == items[i] IN
         IF item = IoDefect THEN Err(JsonError("Io", "read failed"))
         ELSE IF item = SyntaxDefect THEN Err(JsonError("Syntax", "expected value"))
         ELSE IF item = EofDefect THEN Err(JsonError("Eof", "EOF while parsing"))
         ELSE LET name == item[2]
                  text == item[3]
              IN  IF name \notin FieldNames
                  THEN VisitMap(items, i + 1, acc)
                  ELSE IF IsSome(acc[name])
                  THEN Err(JsonError("Data", "duplicate field"))
                  ELSE IF name = "external_memory"
                  THEN LET r == ExternalMemoryField(Present(text)) IN
                       IF IsErr(r)
                       THEN Err(JsonError("Data", r[2]))
                       ELSE VisitMap(items, i + 1, [acc EXCEPT ![name] = Some(r[2])])
                  ELSE IF text = Mistyped
                  THEN Err(JsonError("Data", "invalid type"))
                  ELSE VisitMap(items, i + 1, [acc EXCEPT ![name] = Some(text[2])])

\* serde_json::from_reader (line 89)
from_reader(items) == VisitMap(items, 1, EmptyPartial)

\* new_from_json (lines 86-91)
new_from_json(f) ==
    IF f = NoFile
    THEN Err(IoError("No such file or directory"))
    ELSE from_reader(f[2])

----------------------------------------------------------------------------
(* The documents new_from_json is run on *)

\* what a document may hold for each field; Absent: the member is not there
ConfigTexts == {Absent, Mistyped, Typed("cfgA")}
MemoryTexts == {Absent, Null, Str("a"), Members(<<>>),
                Members(<< <<"k1", Str("a")>> >>),
                Members(<< <<"k1", Number(7)>> >>),
                Members(<< <<"k1", Array(<<Str("a"), ObjA>>)>>, <<"k2", ObjA>> >>)}
TasksTexts == {Absent, Mistyped, Typed(<<Task("t1", "p1"), Task("t1", "p2")>>)}
StepsTexts == {Absent, Typed(<<Edge("t1", "t2"), Edge("t1", "end")>>)}
ReturnTexts == {Absent, Typed("rvA")}
\* a further member: none, one the struct does not know, or a second config
ExtraItems == {Absent, FieldItem("name", Typed("w")), FieldItem("config", Typed("cfgB"))}
Defects == {IoDefect, SyntaxDefect, EofDefect}

Member(name, text) == IF text = Absent THEN <<>> ELSE <<FieldItem(name, text)>>

ItemsOf(c, e, t, s, r, x) ==
    Member("config", c) \o Member("external_memory", e) \o Member("tasks", t)
        \o Member("steps", s) \o Member("return_value", r)
        \o (IF x = Absent THEN <<>> ELSE <<x>>)

DefectAt(items, d, pos) ==
    SubSeq(items, 1, pos) \o <<d>> \o SubSeq(items, pos + 1, Len(items))

SoundItems ==
    {ItemsOf(c, e, t, s, r, x) :
        c \in ConfigTexts, e \in MemoryTexts, t \in TasksTexts,
        s \in StepsTexts, r \in ReturnTexts, x \in ExtraItems}

Files ==
    {NoFile}
        \cup {File(items) : items \in SoundItems}
        \cup UNION {{File(DefectAt(items, d, pos)) : d \in Defects, pos \in 0..Len(items)} :
                       items \in SoundItems}

----------------------------------------------------------------------------
(* The program: a Workflow is built once, by new or by new_from_json, then   *)
(* read and changed through what the type exposes.                           *)

Init ==
    /\ file \in Files
    /\ wf = None
    /\ result = NotCalled
    /\ last = "none"
    /\ field = Absent
    /\ out = NotRun

\* Workflow::new, when the program builds its workflow itself
New ==
    /\ wf = None
    /\ result = NotCalled
    /\ file = NoFile
    /\ \E tasks \in SeqsUpTo(Tasks, MaxTasks), steps \in SeqsUpTo(Edges, MaxSteps),
          config \in Configs, external_memory \in Memories, return_value \in ReturnValues :
          wf' = Some(new(tasks, steps, config, external_memory, return_value))
    /\ last' = "new"
    /\ UNCHANGED <<file, result, normVars>>

\* Workflow::new_from_json(path)
Load ==
    /\ wf = None
    /\ result = NotCalled
    /\ LET r == new_from_json(file) IN
          /\ result' = r
          /\ wf' = IF IsOk(r) THEN Some(r[2]) ELSE None
    /\ last' = "new_from_json"
    /\ UNCHANGED <<file, normVars>>

\* get_tasks_mut().push(task)
PushTask ==
    /\ IsSome(wf)
    /\ Len(get_tasks(wf[2])) < MaxTasks
    /\ \E task \in Tasks :
          wf' = Some(WithTasks(wf[2], Append(get_tasks(wf[2]), task)))
    /\ last' = "get_tasks_mut"
    /\ UNCHANGED <<file, result, normVars>>

\* get_tasks_mut().remove(i)
RemoveTask ==
    /\ IsSome(wf)
    /\ \E i \in 1..Len(get_tasks(wf[2])) :
          LET tasks == get_tasks(wf[2]) IN
          wf' = Some(WithTasks(wf[2], SubSeq(tasks, 1, i - 1) \o SubSeq(tasks, i + 1, Len(tasks))))
    /\ last' = "get_tasks_mut"
    /\ UNCHANGED <<file, result, normVars>>

\* get_tasks_mut().swap(i, j)
SwapTasks ==
    /\ IsSome(wf)
    /\ \E i, j \in 1..Len(get_tasks(wf[2])) :
          /\ i < j
          /\ LET tasks == get_tasks(wf[2]) IN
             wf' = Some(WithTasks(wf[2], [tasks EXCEPT ![i] = tasks[j], ![j] = tasks[i]]))
    /\ last' = "get_tasks_mut"
    /\ UNCHANGED <<file, result, normVars>>

\* get_tasks_mut()[i] = task
ReplaceTask ==
    /\ IsSome(wf)
    /\ \E i \in 1..Len(get_tasks(wf[2])), task \in Tasks :
          wf' = Some(WithTasks(wf[2], [get_tasks(wf[2]) EXCEPT ![i] = task]))
    /\ last' = "get_tasks_mut"
    /\ UNCHANGED <<file, result, normVars>>

\* *get_tasks_by_id_mut(task_id)? = task
UpdateTaskById ==
    /\ IsSome(wf)
    /\ \E task_id \in QueryIds, task \in Tasks :
          LET found == get_tasks_by_id_mut(wf[2], task_id) IN
          /\ IsSome(found)
          /\ wf' = Some(WithTaskAt(wf[2], found[2][1], task))
    /\ last' = "get_tasks_by_id_mut"
    /\ UNCHANGED <<file, result, normVars>>

\* workflow.external_memory = value, by the holder of the Workflow
WriteExternalMemory ==
    /\ IsSome(wf)
    /\ \E external_memory \in Memories :
          wf' = Some(WithExternalMemory(wf[2], external_memory))
    /\ last' = "external_memory"
    /\ UNCHANGED <<file, result, normVars>>

Next ==
    \/ New
    \/ Load
    \/ PushTask
    \/ RemoveTask
    \/ SwapTasks
    \/ ReplaceTask
    \/ UpdateTaskById
    \/ WriteExternalMemory

Spec == Init /\ [][Next]_vars

----------------------------------------------------------------------------
(* What the claims about loading speak of, read off the document *)

W == wf[2]
Loaded == result[2]

FileItems == file[2]

IsField(item, name) == item[1] = "field" /\ item[2] = name

HasField(name) == \E i \in 1..Len(FileItems) : IsField(FileItems[i], name)

\* the text of the first member called name
FieldText(name) ==
    FileItems[CHOOSE i \in 1..Len(FileItems) :
                  /\ IsField(FileItems[i], name)
                  /\ \A j \in 1..(i - 1) : ~IsField(FileItems[j], name)][3]

\* the external_memory member of the document, Absent when it has none
MemoryText == IF HasField("external_memory") THEN FieldText("external_memory") ELSE Absent

\* a text the normalizer has to reject: not a map, or a map with an invalid value
MemoryTextInvalid(text) ==
    \/ Shape(text) \notin {"null", "members"}
    \/ /\ Shape(text) = "members"
       /\ \E i \in 1..Len(text[2]) :
             /\ \A j \in (i + 1)..Len(text[2]) : text[2][j][1] # text[2][i][1]
             /\ InvalidValue(text[2][i][2])

\* what is wrong with item i of the document, "" when nothing is
ProblemAt(items, i) ==
    LET item == items[i] IN
    IF item = IoDefect THEN "io"
    ELSE IF item \in {SyntaxDefect, EofDefect} THEN "format"
    ELSE IF item[2] \notin FieldNames THEN ""
    ELSE IF \E j \in 1..(i - 1) : IsField(items[j], item[2]) THEN "format"
    ELSE IF item[2] = "external_memory"
    THEN (IF MemoryTextInvalid(item[3]) THEN "memory" ELSE "")
    ELSE IF item[3] = Mistyped THEN "format"
    ELSE ""

RequiredFields == FieldNames \ {"external_memory"}

\* how the load has to end: with the first problem the reader meets, with a
\* schema error when a required field is missing, with a Workflow otherwise
ExpectedOutcome ==
    IF file = NoFile THEN "io"
    ELSE LET bad == {i \in 1..Len(FileItems) : ProblemAt(FileItems, i) # ""} IN
         IF bad # {}
         THEN ProblemAt(FileItems, CHOOSE i \in bad : \A j \in bad : i <= j)
         ELSE IF \A name \in RequiredFields : HasField(name) THEN "ok" ELSE "format"

IoKind(e) == e[1] = "std::io::Error" \/ e[2] = "Io"
FormatKind(e) == e[1] = "serde_json::Error" /\ e[2] \in {"Syntax", "Eof", "Data"}
MemoryMessages == {ErrInvalidEntry, ErrExpectedMap}

\* C4: a document without an external_memory field loads with
\* external_memory = None, not an empty map; a document whose field is an
\* object, the empty object included, loads with Some(map), never None.
C4_AbsencePassthrough ==
    IsOk(result) =>
        /\ MemoryText = Absent =>
              Loaded.external_memory = None /\ Loaded.external_memory # Some({})
        /\ Shape(MemoryText) = "members" => IsSome(Loaded.external_memory)
        /\ MemoryText = Members(<<>>) => Loaded.external_memory = Some({})

\* a document without the field was loaded
C4_Witness ==
    /\ IsOk(result)
    /\ MemoryText = Absent
    /\ Loaded.external_memory = None

\* C8: new_from_json returns a complete Workflow or an error and nothing in
\* between: an I/O-kind error when the source cannot be opened or read, a
\* format-kind error when the content is malformed or violates the schema, and
\* for a failed normalization an error whose message sets it apart from both.
C8_LoadOutcome ==
    result # NotCalled =>
        /\ IsOk(result) \/ IsErr(result)
        /\ IsOk(result) <=> ExpectedOutcome = "ok"
        /\ IsOk(result) =>
              /\ IsSome(wf)
              /\ \A name \in RequiredFields : Loaded[name] = FieldText(name)[2]
              /\ Ok(Loaded.external_memory) = ExternalMemoryField(
                     IF MemoryText = Absent THEN Absent ELSE Present(MemoryText))
        /\ IsErr(result) =>
              /\ wf = None
              /\ ExpectedOutcome = "io" =>
                    IoKind(result[2]) /\ result[2][3] \notin MemoryMessages
              /\ ExpectedOutcome = "format" =>
                    FormatKind(result[2]) /\ result[2][3] \notin MemoryMessages
              /\ ExpectedOutcome = "memory" => result[2][3] \in MemoryMessages

\* a document sound but for an invalid memory entry was refused as such
C8_Witness ==
    /\ IsErr(result)
    /\ file # NoFile
    /\ \A name \in FieldNames : HasField(name)
    /\ ExpectedOutcome = "memory"
    /\ result[2][3] = ErrInvalidEntry
    /\ wf = None

----------------------------------------------------------------------------
(* What the claims about the container speak of *)

Min(S) == CHOOSE x \in S : \A y \in S : x <= y

FirstOf(seq, matching) ==
    IF matching = {} THEN None ELSE Some(Ref(Min(matching), seq[Min(matching)]))

TaskMatches(w, q) == {i \in 1..Len(w.tasks) : w.tasks[i].id = q}
StepMatches(w, q) == {i \in 1..Len(w.steps) : w.steps[i].source = q}

\* C5: get_tasks_by_id and get_tasks_by_id_mut return the task at the least
\* index whose id equals the query, get_step_by_id the edge at the least index
\* whose source equals it, and each returns None when nothing matches.
C5_FirstMatchLookup ==
    IsSome(wf) =>
        \A q \in QueryIds :
            /\ get_tasks_by_id(W, q) = FirstOf(W.tasks, TaskMatches(W, q))
            /\ get_tasks_by_id_mut(W, q) = FirstOf(W.tasks, TaskMatches(W, q))
            /\ get_step_by_id(W, q) = FirstOf(W.steps, StepMatches(W, q))

\* two different tasks share an id, two different edges share a source, and
\* some id names no task
C5_Witness ==
    /\ IsSome(wf)
    /\ \E q \in QueryIds :
          /\ Cardinality(TaskMatches(W, q)) >= 2
          /\ Cardinality(StepMatches(W, q)) >= 2
          /\ W.tasks[1] # W.tasks[2]
          /\ W.steps[1] # W.steps[2]
    /\ \E q \in QueryIds : TaskMatches(W, q) = {} /\ get_tasks_by_id(W, q) = None

SameButTasksAndMemory(v, w) ==
    /\ get_config(v) = get_config(w)
    /\ get_workflow(v) = get_workflow(w)
    /\ get_return_value(v) = get_return_value(w)

\* C6 as stated: once a Workflow is constructed, no operation changes config,
\* steps, external_memory or return_value.
C6_Original ==
    [][IsSome(wf) =>
          /\ IsSome(wf')
          /\ SameButTasksAndMemory(wf'[2], W)
          /\ wf'[2].external_memory = W.external_memory]_vars

\* C6 as amended: once a Workflow is constructed, no operation changes config,
\* steps or return_value, and external_memory changes only by an assignment to
\* the public field, never through a method of Workflow.
C6_Immutability ==
    [][IsSome(wf) =>
          /\ IsSome(wf')
          /\ SameButTasksAndMemory(wf'[2], W)
          /\ wf'[2].external_memory # W.external_memory => WriteExternalMemory]_vars

\* a loaded Workflow whose tasks and external_memory were both changed since
C6_Witness ==
    /\ IsOk(result)
    /\ IsSome(wf)
    /\ W.tasks # Loaded.tasks
    /\ W.external_memory # Loaded.external_memory
    /\ SameButTasksAndMemory(W, Loaded)

MutatesTasks == PushTask \/ RemoveTask \/ SwapTasks \/ ReplaceTask \/ UpdateTaskById

\* C7: a mutation through get_tasks_mut or through the task returned by
\* get_tasks_by_id_mut leaves steps, config, external_memory and return_value
\* as they were: get_workflow, get_step, get_step_by_id, get_config and
\* get_return_value return afterwards what they returned before.
C7_MutationIsolation ==
    [][MutatesTasks =>
          /\ get_workflow(wf'[2]) = get_workflow(W)
          /\ \A index \in 0..(MaxSteps + 1) : get_step(wf'[2], index) = get_step(W, index)
          /\ \A q \in QueryIds : get_step_by_id(wf'[2], q) = get_step_by_id(W, q)
          /\ get_config(wf'[2]) = get_config(W)
          /\ get_return_value(wf'[2]) = get_return_value(W)
          /\ wf'[2].external_memory = W.external_memory]_vars

\* a task of a loaded Workflow was changed through get_tasks_by_id_mut
C7_Witness ==
    /\ last = "get_tasks_by_id_mut"
    /\ IsOk(result)
    /\ IsSome(wf)
    /\ W.tasks # Loaded.tasks
    /\ Len(W.tasks) = Len(Loaded.tasks)
    /\ Len(W.steps) > 0
    /\ W.external_memory = Loaded.external_memory

====
